---------------------------- MODULE Spec2Model ----------------------------
(***************************************************************************)
(* ParcelStore (src/parcel.go): a store of parcels over one SQL table      *)
(* `parcel` with the columns number, client, status, address, created_at.  *)
(* Every method issues one statement; the table is modelled as the set of  *)
(* its rows and every statement as one atomic step on that set.            *)
(***************************************************************************)
EXTENDS Integers, Sequences, FiniteSets

\* ------------------------------------------------------------------ bounds

\* Identifiers the storage can hand out are 1..MaxNumber.
MaxNumber == 2

Numbers == 1..MaxNumber

\* ------------------------------------------------------- values of the model

\* Client identifiers (the test parcel uses 1000).
Clients == {1000, 1001}

\* The status the gated statements compare with.
ParcelStatusRegistered == "registered"

ParcelStatusSent == "sent"

\* Status values. The statements compare a status with "registered" only and
\* store any string: "sent" stands for the recognised values other than
\* "registered" (sent, delivered), "lost" for a string that is not recognised.
Statuses == {ParcelStatusRegistered, ParcelStatusSent, "lost"}

Addresses == {"test", "new test address"}

CreatedAts == {"2024-01-01T00:00:00Z"}

\* Values of p.Number a caller may pass to Add (the statement does not use it).
GivenNumbers == {0, 7}

\* Errors: nil, sql.ErrNoRows, and any other failure of the storage.
Nil == "nil"

ErrNoRows == "sql: no rows in result set"

StorageFailure == "storage failure"

DbErrors == {Nil, StorageFailure}

\* Parcel{}: the zero value of the struct.
ZeroParcel == [Number |-> 0, Client |-> 0, Status |-> "", Address |-> "", CreatedAt |-> ""]

Parcels == [Number : GivenNumbers, Client : Clients, Status : Statuses,
            Address : Addresses, CreatedAt : CreatedAts]

VARIABLES
    table,    \* the rows of table parcel
    before,   \* the rows of table parcel when the last call was made
    call,     \* the last writing call (Add, SetStatus, SetAddress, Delete)
    ret,      \* what that call returned
    query,    \* the last reading call (Get, GetByClient) made since, if any
    answer,   \* what that call returned
    deleted,  \* identifiers removed by Delete and not assigned again since
    trip,     \* how far the last writing calls, all on call.number, are in the
              \* sequence SetStatus "sent", SetStatus "registered", SetAddress
              \* or Delete: "no", "sent", "back", "used"
    fault     \* the error the storage gave to the last call's statement (for
              \* GetByClient: to its query or to the iteration of its rows)

vars == <<table, before, call, ret, query, answer, deleted, trip, fault>>

\* ------------------------------------------------------------- statements

\* The identifiers the storage may assign to a new row: non-zero and unused.
FreeNumbers(t) == {n \in Numbers : \A r \in t : r.number # n}

\* Mutant of InsertStmt: the status column is written as the constant
\* "registered" instead of p.Status.
InsertRegistered(t, id, p) ==
    t \cup {[number |-> id, client |-> p.Client, status |-> ParcelStatusRegistered,
             address |-> p.Address, created_at |-> p.CreatedAt]}

\* INSERT INTO parcel (client, status, address, created_at) VALUES (...)
InsertStmt(t, id, p) ==
    t \cup {[number |-> id, client |-> p.Client, status |-> p.Status,
             address |-> p.Address, created_at |-> p.CreatedAt]}

\* SELECT * FROM parcel WHERE number = @number
SelectByNumber(t, number) == {r \in t : r.number = number}

\* Mutant of SelectByClient: the WHERE clause is missing.
SelectAllClients(t, client) == t

\* SELECT * FROM parcel WHERE client = @client
SelectByClient(t, client) == {r \in t : r.client = client}

\* Mutant of UpdateStatusStmt: the statement also rewrites created_at.
UpdateStatusTouchesCreatedAt(t, number, status) ==
    {IF r.number = number
        THEN [r EXCEPT !.status = status, !.created_at = "2024-02-02T00:00:00Z"]
        ELSE r : r \in t}

\* Mutant of UpdateStatusStmt: the WHERE clause is missing.
UpdateStatusAllRows(t, number, status) == {[r EXCEPT !.status = status] : r \in t}

\* Mutant of UpdateStatusStmt: a status that has left "registered" is never
\* written back to it.
UpdateStatusForwardOnly(t, number, status) ==
    {IF r.number = number /\ ~(status = ParcelStatusRegistered
                               /\ r.status # ParcelStatusRegistered)
        THEN [r EXCEPT !.status = status] ELSE r : r \in t}

\* Mutant of UpdateStatusStmt: only a recognised status is written.
UpdateStatusValidated(t, number, status) ==
    {IF r.number = number /\ status \in {ParcelStatusRegistered, ParcelStatusSent, "delivered"}
        THEN [r EXCEPT !.status = status] ELSE r : r \in t}

\* UPDATE parcel SET status = @status WHERE number = @number
UpdateStatusStmt(t, number, status) ==
    {IF r.number = number THEN [r EXCEPT !.status = status] ELSE r : r \in t}

\* Mutant of UpdateAddressStmt: the status predicate is missing.
UpdateAddressNoGate(t, number, address) ==
    {IF r.number = number THEN [r EXCEPT !.address = address] ELSE r : r \in t}

\* Mutant of UpdateAddressStmt: the gate only excludes status "delivered".
UpdateAddressNotDelivered(t, number, address) ==
    {IF r.number = number /\ r.status # "delivered"
        THEN [r EXCEPT !.address = address] ELSE r : r \in t}

\* UPDATE parcel SET address = @address WHERE number = @number AND status = @status
UpdateAddressStmt(t, number, address) ==
    {IF r.number = number /\ r.status = ParcelStatusRegistered
        THEN [r EXCEPT !.address = address] ELSE r : r \in t}

\* Mutant of DeleteStmt: the status predicate is missing.
DeleteNoGate(t, number) == {r \in t : r.number # number}

\* Mutant of DeleteStmt: the status is compared with "sent".
DeleteSent(t, number) ==
    {r \in t : ~(r.number = number /\ r.status = ParcelStatusSent)}

\* DELETE FROM parcel WHERE number = @number AND status = @status
DeleteStmt(t, number) ==
    {r \in t : ~(r.number = number /\ r.status = ParcelStatusRegistered)}

\* Scan(&p.Number, &p.Client, &p.Status, &p.Address, &p.CreatedAt)
ScanParcel(r) ==
    [Number |-> r.number, Client |-> r.client, Status |-> r.status,
     Address |-> r.address, CreatedAt |-> r.created_at]

\* The orders in which the storage may return the rows of a result set.
RowOrders(rows) ==
    {f \in [1..Cardinality(rows) -> rows] :
        \A i, j \in 1..Cardinality(rows) : f[i] = f[j] => i = j}

\* res = append(res, r) for each row in order; the first k of them.
ScanRows(order, k) == [i \in 1..k |-> ScanParcel(order[i])]

\* ---------------------------------------------------------- return values

Call(op, p, number, client, status, address) ==
    [op |-> op, p |-> p, number |-> number, client |-> client,
     status |-> status, address |-> address]

Ret(id, p, res, err) == [id |-> id, p |-> p, res |-> res, err |-> err]

\* Mutant of AddReturn: res.RowsAffected() is returned instead of
\* res.LastInsertId().
AddReturnRowsAffected(execErr, idErr, id) ==
    IF execErr # Nil THEN Ret(0, ZeroParcel, <<>>, execErr)
    ELSE IF idErr # Nil THEN Ret(0, ZeroParcel, <<>>, idErr)
    ELSE Ret(1, ZeroParcel, <<>>, Nil)

\* Add: (0, err) when the statement failed or res.LastInsertId() did, else
\* (int(id), nil).
AddReturn(execErr, idErr, id) ==
    IF execErr # Nil THEN Ret(0, ZeroParcel, <<>>, execErr)
    ELSE IF idErr # Nil THEN Ret(0, ZeroParcel, <<>>, idErr)
    ELSE Ret(id, ZeroParcel, <<>>, Nil)

\* Mutant of GetReturn: no row is not reported; the zero parcel is returned.
GetReturnZero(queryErr, rows, r) ==
    IF queryErr # Nil THEN Ret(0, ZeroParcel, <<>>, queryErr)
    ELSE IF rows = {} THEN Ret(0, ZeroParcel, <<>>, Nil)
    ELSE Ret(0, ScanParcel(r), <<>>, Nil)

\* Get: row.Scan gives sql.ErrNoRows when the query matched no row.
GetReturn(queryErr, rows, r) ==
    IF queryErr # Nil THEN Ret(0, ZeroParcel, <<>>, queryErr)
    ELSE IF rows = {} THEN Ret(0, ZeroParcel, <<>>, ErrNoRows)
    ELSE Ret(0, ScanParcel(r), <<>>, Nil)

\* GetByClient: (nil, err) when the query failed, else the scanned rows and nil.
GetByClientReturn(queryErr, order, scanned) ==
    IF queryErr # Nil THEN Ret(0, ZeroParcel, <<>>, queryErr)
                      ELSE Ret(0, ZeroParcel, ScanRows(order, scanned), Nil)

\* Mutant of SetStatusReturn: zero rows affected is reported as sql.ErrNoRows.
SetStatusReturnNoRows(execErr, affected) ==
    IF execErr # Nil THEN Ret(0, ZeroParcel, <<>>, execErr)
    ELSE IF affected = 0 THEN Ret(0, ZeroParcel, <<>>, ErrNoRows)
    ELSE Ret(0, ZeroParcel, <<>>, Nil)

\* SetStatus: the statement's error; its result (rows affected) is discarded.
SetStatusReturn(execErr, affected) == Ret(0, ZeroParcel, <<>>, execErr)

\* SetAddress: the statement's error; its result (rows affected) is discarded.
SetAddressReturn(execErr, affected) == Ret(0, ZeroParcel, <<>>, execErr)

\* Mutant of DeleteReturn: the statement's error is dropped.
DeleteReturnSwallow(execErr, affected) == Ret(0, ZeroParcel, <<>>, Nil)

\* Mutant of DeleteReturn: zero rows affected is reported as sql.ErrNoRows.
DeleteReturnNoRows(execErr, affected) ==
    IF execErr # Nil THEN Ret(0, ZeroParcel, <<>>, execErr)
    ELSE IF affected = 0 THEN Ret(0, ZeroParcel, <<>>, ErrNoRows)
    ELSE Ret(0, ZeroParcel, <<>>, Nil)

\* Delete: the statement's error; its result (rows affected) is discarded.
DeleteReturn(execErr, affected) == Ret(0, ZeroParcel, <<>>, execErr)

\* ------------------------------------------------------------------ state

NoCall == Call("none", ZeroParcel, 0, 0, "", "")

NoRet == Ret(0, ZeroParcel, <<>>, Nil)

Init ==
    /\ table = {}
    /\ before = {}
    /\ call = NoCall
    /\ ret = NoRet
    /\ query = NoCall
    /\ answer = NoRet
    /\ deleted = {}
    /\ trip = "no"
    /\ fault = Nil

\* ---------------------------------------------------------------- methods

\* idErr: the error of res.LastInsertId(), asked for after the INSERT was
\* executed.
Add(p, execErr, idErr) ==
    /\ before' = table
    /\ call' = Call("Add", p, 0, 0, "", "")
    /\ IF execErr # Nil
          THEN /\ table' = table
               /\ ret' = AddReturn(execErr, idErr, 0)
               /\ deleted' = deleted
          ELSE \E id \in FreeNumbers(table) :
               /\ table' = InsertStmt(table, id, p)
               /\ ret' = AddReturn(Nil, idErr, id)
               /\ deleted' = deleted \ {id}
    /\ trip' = "no"
    /\ fault' = execErr
    /\ query' = NoCall
    /\ answer' = NoRet

Get(number, queryErr) ==
    /\ query' = Call("Get", ZeroParcel, number, 0, "", "")
    /\ LET rows == IF queryErr # Nil THEN {} ELSE SelectByNumber(table, number)
       IN  IF rows = {}
              THEN answer' = GetReturn(queryErr, rows, ZeroParcel)
              ELSE \E r \in rows : answer' = GetReturn(queryErr, rows, r)
    /\ fault' = queryErr
    /\ before' = table
    /\ UNCHANGED <<table, call, ret, deleted, trip>>

\* failing: the storage may fail while the rows are iterated, so that
\* rows.Next() returns false after any number of them.
GetByClient(client, queryErr, failing) ==
    /\ query' = Call("GetByClient", ZeroParcel, 0, client, "", "")
    /\ LET rows == IF queryErr # Nil THEN {} ELSE SelectByClient(table, client)
       IN  \E order \in RowOrders(rows) :
           \E delivered \in (IF failing THEN 0..Cardinality(rows) ELSE {Cardinality(rows)}) :
               answer' = GetByClientReturn(queryErr, order, delivered)
    /\ fault' = IF queryErr # Nil THEN queryErr
                ELSE IF failing THEN StorageFailure ELSE Nil
    /\ before' = table
    /\ UNCHANGED <<table, call, ret, deleted, trip>>

SetStatus(number, status, execErr) ==
    /\ before' = table
    /\ call' = Call("SetStatus", ZeroParcel, number, 0, status, "")
    /\ table' = IF execErr # Nil THEN table ELSE UpdateStatusStmt(table, number, status)
    /\ ret' = SetStatusReturn(execErr, Cardinality(SelectByNumber(table, number)))
    /\ fault' = execErr
    /\ trip' = IF execErr = Nil /\ status = "sent" /\ (\E r \in table : r.number = number)
                 THEN "sent"
              ELSE IF execErr = Nil /\ status = "registered"
                      /\ trip = "sent" /\ call.number = number
                 THEN "back"
              ELSE "no"
    /\ query' = NoCall
    /\ answer' = NoRet
    /\ UNCHANGED deleted

SetAddress(number, address, execErr) ==
    /\ before' = table
    /\ call' = Call("SetAddress", ZeroParcel, number, 0, "", address)
    /\ table' = IF execErr # Nil THEN table ELSE UpdateAddressStmt(table, number, address)
    /\ ret' = SetAddressReturn(execErr,
                 Cardinality(table \ UpdateAddressStmt(table, number, "")))
    /\ fault' = execErr
    /\ trip' = IF execErr = Nil /\ trip = "back" /\ call.number = number
                 THEN "used" ELSE "no"
    /\ query' = NoCall
    /\ answer' = NoRet
    /\ UNCHANGED deleted

Delete(number, execErr) ==
    /\ before' = table
    /\ call' = Call("Delete", ZeroParcel, number, 0, "", "")
    /\ table' = IF execErr # Nil THEN table ELSE DeleteStmt(table, number)
    /\ ret' = DeleteReturn(execErr, Cardinality(table \ DeleteStmt(table, number)))
    /\ fault' = execErr
    /\ deleted' = IF /\ execErr = Nil
                     /\ \E r \in table : r.number = number /\ r.status = "registered"
                     THEN deleted \cup {number} ELSE deleted
    /\ trip' = IF execErr = Nil /\ trip = "back" /\ call.number = number
                 THEN "used" ELSE "no"
    /\ query' = NoCall
    /\ answer' = NoRet

\* Calls against a storage that executes every statement.
Next ==
    \/ \E p \in Parcels : Add(p, Nil, Nil)
    \/ \E number \in Numbers : Get(number, Nil)
    \/ \E client \in Clients : GetByClient(client, Nil, FALSE)
    \/ \E number \in Numbers, status \in Statuses : SetStatus(number, status, Nil)
    \/ \E number \in Numbers, address \in Addresses : SetAddress(number, address, Nil)
    \/ \E number \in Numbers : Delete(number, Nil)

Spec == Init /\ [][Next]_vars

\* The parcel and the status values the repository's tests use: the
\* registered test parcel of client 1000, and the status "sent".
TestParcels ==
    {p \in Parcels : /\ p.Number = 0
                     /\ p.Client = 1000
                     /\ p.Status = ParcelStatusRegistered
                     /\ p.Address = "test"}

TestStatuses == {ParcelStatusRegistered, ParcelStatusSent}

\* The calls of the tests against a storage whose statements may fail.
NextFault ==
    \/ \E p \in TestParcels, e \in DbErrors, idErr \in DbErrors : Add(p, e, idErr)
    \/ \E number \in Numbers, e \in DbErrors : Get(number, e)
    \/ \E client \in Clients, e \in DbErrors, failing \in BOOLEAN :
          GetByClient(client, e, failing)
    \/ \E number \in Numbers, status \in TestStatuses, e \in DbErrors :
          SetStatus(number, status, e)
    \/ \E number \in Numbers, address \in Addresses, e \in DbErrors :
          SetAddress(number, address, e)
    \/ \E number \in Numbers, e \in DbErrors : Delete(number, e)

SpecFault == Init /\ [][NextFault]_vars

\* ----------------------------------------------------------------- claims

\* The last call was the writing call op and no read has followed it, so that
\* `before` is the table the call found.
JustDid(op) == call.op = op /\ query = NoCall

\* A row as a Parcel value.
AsParcel(r) ==
    [Number |-> r.number, Client |-> r.client, Status |-> r.status,
     Address |-> r.address, CreatedAt |-> r.created_at]

\* The row of identifier n is in t with status "registered".
Registered(t, n) == \E r \in t : r.number = n /\ r.status = "registered"

\* Some row of t has identifier n.
Present(t, n) == \E r \in t : r.number = n

\* C1: SetAddress(id, a) makes a the stored address of row id if and only if
\* that row exists with status "registered" when the statement executes; in
\* every other case the table is left exactly as it was.
C1_SetAddressGate ==
    JustDid("SetAddress") =>
        /\ Registered(before, call.number) =>
              /\ \A r \in before : r.number = call.number =>
                    [r EXCEPT !.address = call.address] \in table
              /\ \A q \in table : q.number = call.number => q.address = call.address
        /\ ~Registered(before, call.number) => table = before

\* C1 witness: a SetAddress on a registered row has changed its address.
C1_Witness ==
    /\ JustDid("SetAddress")
    /\ Registered(before, call.number)
    /\ table # before

\* C2: SetAddress returns sql.ErrNoRows whenever its statement matches no row
\* (row absent or status not "registered") and no error only when the row
\* exists with status "registered".
C2_SetAddressNoRows ==
    JustDid("SetAddress") =>
        /\ Registered(before, call.number) => ret.err = Nil
        /\ ~Registered(before, call.number) => ret.err = ErrNoRows

\* C3: a row disappears only in a Delete of its identifier made while its
\* status is "registered"; Delete on a row of another status leaves the row,
\* and a following Get returns it with all its fields.
C3_DeleteGate ==
    /\ \A r \in before : ~Present(table, r.number) =>
          /\ call.op = "Delete"
          /\ call.number = r.number
          /\ r.status = "registered"
    /\ JustDid("Delete") =>
          \A r \in before : (r.number = call.number /\ r.status # "registered")
                                => r \in table
    /\ (call.op = "Delete" /\ query.op = "Get" /\ query.number = call.number) =>
          \A r \in table : r.number = call.number =>
              answer.err = Nil /\ answer.p = AsParcel(r)

\* C3 witness: Delete was called on a row that is not registered, and the
\* Get that followed returned the row.
C3_Witness ==
    /\ call.op = "Delete"
    /\ query.op = "Get"
    /\ query.number = call.number
    /\ answer.err = Nil
    /\ answer.p.Number = call.number
    /\ answer.p.Status = "sent"

\* C4: after a successful Add(p) returning id, Get(id) returns no error and
\* the parcel p with Number = id.
C4_AddGetRoundTrip ==
    (call.op = "Add" /\ ret.err = Nil /\ query.op = "Get" /\ query.number = ret.id) =>
        /\ answer.err = Nil
        /\ answer.p = [call.p EXCEPT !.Number = ret.id]

\* C4 witness: Get(id) has answered right after Add returned id, for a parcel
\* that is not registered and was passed with a Number of its own.
C4_Witness ==
    /\ call.op = "Add"
    /\ ret.err = Nil
    /\ query.op = "Get"
    /\ query.number = ret.id
    /\ call.p.Number = 7
    /\ call.p.Status = "lost"
    /\ answer.p.Status = "lost"

\* C5: once Delete(id) has returned without error on a registered parcel,
\* Get(id) returns sql.ErrNoRows until an Add assigns id again.
C5_DeletedNotFound ==
    /\ JustDid("Delete") /\ ret.err = Nil /\ Registered(before, call.number)
          => call.number \in deleted
    /\ (query.op = "Get" /\ query.number \in deleted) => answer.err = ErrNoRows

\* C5 witness: Get(id) has answered sql.ErrNoRows for a deleted id after a
\* later writing call on another identifier.
C5_Witness ==
    /\ query.op = "Get"
    /\ query.number \in deleted
    /\ answer.err = ErrNoRows
    /\ call.op = "Add"
    /\ ret.id # query.number

\* C6: SetStatus(id, s) on an existing row returns no error whatever the old
\* and the new status are, and a following Get(id) returns Status = s.
C6_SetStatusAnyString ==
    /\ JustDid("SetStatus") =>
          \A r \in before : r.number = call.number =>
              /\ ret.err = Nil
              /\ [r EXCEPT !.status = call.status] \in table
    /\ (call.op = "SetStatus" /\ query.op = "Get" /\ query.number = call.number) =>
          \A r \in table : r.number = call.number =>
              answer.err = Nil /\ answer.p.Status = call.status

\* C6 witness: Get(id) returned the unrecognised status that the SetStatus
\* before it had written.
C6_Witness ==
    /\ call.op = "SetStatus"
    /\ call.status = "lost"
    /\ ret.err = Nil
    /\ query.op = "Get"
    /\ query.number = call.number
    /\ answer.err = Nil
    /\ answer.p.Status = "lost"

\* C7: GetByClient(c) returns no error and each row of client c exactly
\* once, with its five stored fields, and no row of another client; with no
\* such row the sequence is empty.
C7_GetByClientExact ==
    query.op = "GetByClient" =>
        LET mine == {r \in table : r.client = query.client}
        IN  /\ answer.err = Nil
            /\ Len(answer.res) = Cardinality(mine)
            /\ {answer.res[i] : i \in 1..Len(answer.res)} = {AsParcel(r) : r \in mine}

\* C7 witness: GetByClient returned the row of its client while the table
\* also holds a row of another client.
C7_Witness ==
    /\ query.op = "GetByClient"
    /\ Len(answer.res) >= 1
    /\ answer.res[1].Client = query.client
    /\ \E r \in table : r.client # query.client

\* C8: in every step of every interleaving of the callers' statements, a row
\* whose address changes or that is removed had status "registered" in the
\* state the step was taken in.
C8_GatedWriteAtomic ==
    [][\A r \in table :
          (\/ ~Present(table', r.number)
           \/ \E q \in table' : q.number = r.number /\ q.address # r.address)
          => r.status = "registered"]_vars

\* C8 witness: a SetAddress executed on a row whose status another call had
\* already changed from "registered", and wrote nothing.
C8_Witness ==
    /\ JustDid("SetAddress")
    /\ \E r \in before : /\ r.number = call.number
                         /\ r.status # "registered"
                         /\ r.address # call.address
    /\ table = before

\* C9: SetStatus on an identifier no row has returns no error and leaves the
\* table unchanged.
C9_SetStatusMissing ==
    (JustDid("SetStatus") /\ ~Present(before, call.number)) =>
        /\ ret.err = Nil
        /\ table = before

\* C9 witness: SetStatus was called on an absent identifier while the table
\* held another row.
C9_Witness ==
    /\ JustDid("SetStatus")
    /\ ~Present(before, call.number)
    /\ before # {}

\* C10: Get on an identifier no row has returns sql.ErrNoRows, which is not
\* the storage-failure outcome, and changes nothing; Get returns no error
\* exactly when the row exists.
C10_GetNotFound ==
    query.op = "Get" =>
        /\ ~Present(table, query.number) =>
              /\ answer.err = ErrNoRows
              /\ answer.err # StorageFailure
        /\ answer.err = Nil <=> Present(table, query.number)
        /\ table = before

\* C10 witness: Get answered sql.ErrNoRows for an identifier that was never
\* deleted, while the table held another row.
C10_Witness ==
    /\ query.op = "Get"
    /\ answer.err = ErrNoRows
    /\ query.number \notin deleted
    /\ table # {}

\* C11: no two rows have the same Number; a successful Add returns a non-zero
\* identifier that no row had before the call, whatever p.Number was, and adds
\* exactly one row, which carries that identifier.
C11_UniqueNumber ==
    /\ \A r, q \in table : r.number = q.number => r = q
    /\ (JustDid("Add") /\ ret.err = Nil) =>
          /\ ret.id # 0
          /\ ~Present(before, ret.id)
          /\ before \subseteq table
          /\ Cardinality(table \ before) = 1
          /\ \A r \in table \ before : r.number = ret.id

\* C11 witness: Add was passed a parcel with Number 7 while the table held a
\* row, and returned another identifier.
C11_Witness ==
    /\ JustDid("Add")
    /\ ret.err = Nil
    /\ call.p.Number = 7
    /\ before # {}
    /\ ret.id # 7

\* C12: as long as a row exists, its Number, Client and CreatedAt are those
\* it was created with: no call changes them, and only Delete ends the row.
C12_ImmutableFields ==
    \A r \in before :
        /\ call.op # "Delete" => Present(table, r.number)
        /\ \A q \in table : q.number = r.number =>
              q.client = r.client /\ q.created_at = r.created_at

\* C12 witness: SetStatus has changed a row.
C12_Witness ==
    /\ JustDid("SetStatus")
    /\ Present(before, call.number)
    /\ table # before

\* C13: a Delete whose statement matches no row (row absent or status not
\* "registered") returns no error and leaves the table unchanged.
C13_DeleteSilent ==
    (JustDid("Delete") /\ ~Registered(before, call.number)) =>
        /\ ret.err = Nil
        /\ table = before

\* C13 witness: Delete returned nil for an absent identifier while the table
\* held a row of another identifier.
C13_Witness ==
    /\ JustDid("Delete")
    /\ ~Present(before, call.number)
    /\ before # {}
    /\ ret.err = Nil

\* C14: the gate looks at the stored status only: after SetStatus(id, "sent")
\* and then SetStatus(id, "registered"), SetAddress(id, a) makes a the address
\* of the row and Delete(id) removes the row, both without error.
C14_GateHistoryFree ==
    trip = "used" =>
        /\ JustDid("SetAddress") =>
              /\ ret.err = Nil
              /\ Present(before, call.number)
              /\ \A r \in before : r.number = call.number =>
                    [r EXCEPT !.address = call.address, !.status = "registered"]
                        \in table
        /\ JustDid("Delete") =>
              /\ ret.err = Nil
              /\ Present(before, call.number)
              /\ ~Present(table, call.number)

\* C14 witness: SetAddress has changed the address of a row whose status had
\* been set to "sent" and back to "registered".
C14_Witness ==
    /\ trip = "used"
    /\ JustDid("SetAddress")
    /\ table # before

\* C15: if the storage fails while GetByClient iterates over the rows of an
\* accepted query, GetByClient returns an error; it never returns fewer
\* parcels than the client has rows together with a nil error.
C15_IterationFailureReported ==
    query.op = "GetByClient" =>
        /\ fault # Nil => answer.err # Nil
        /\ answer.err = Nil =>
              Len(answer.res) = Cardinality({r \in table : r.client = query.client})

\* C16: when the statement of Add, Get, SetStatus, SetAddress or Delete
\* fails, the call returns that error (Add with identifier 0) and the table
\* is the one the call found: nothing was written by it or by a retry.
C16_FailureReturned ==
    fault # Nil =>
        /\ table = before
        /\ query.op = "Get" => answer.err = fault
        /\ query = NoCall =>
              /\ ret.err = fault
              /\ call.op = "Add" => ret.id = 0

\* C16 witness: the statement of a Delete on a registered row failed; Delete
\* returned the error and the row is still there.
C16_Witness ==
    /\ fault = StorageFailure
    /\ JustDid("Delete")
    /\ Registered(before, call.number)
    /\ Registered(table, call.number)
    /\ ret.err = StorageFailure

\* The identifier the step's call is about: none for a read, the returned one
\* for Add, the argument for the other calls.
Target ==
    IF query' # NoCall THEN 0
    ELSE IF call'.op = "Add" THEN ret'.id
    ELSE call'.number

\* C17: every call leaves the rows of other identifiers as they are;
\* SetStatus changes nothing but the Status of its row, SetAddress nothing but
\* the Address of its row, Delete only removes, Add keeps every existing row,
\* and Get and GetByClient leave the table as it is.
C17_Frame ==
    [][/\ \A r \in table : r.number # Target => r \in table'
       /\ \A q \in table' : q.number # Target => q \in table
       /\ (query' = NoCall /\ call'.op = "SetStatus") =>
             \A r \in table : r.number = Target =>
                 \E q \in table' : q = [r EXCEPT !.status = q.status]
       /\ (query' = NoCall /\ call'.op = "SetAddress") =>
             \A r \in table : r.number = Target =>
                 \E q \in table' : q = [r EXCEPT !.address = q.address]
       /\ (query' = NoCall /\ call'.op \in {"SetStatus", "SetAddress"}) =>
             Cardinality(table') = Cardinality(table)
       /\ (query' = NoCall /\ call'.op = "Delete") => table' \subseteq table
       /\ (query' = NoCall /\ call'.op = "Add") => table \subseteq table'
       /\ query' # NoCall => table' = table
      ]_vars

\* C17 witness: SetStatus has changed the status of one row of a table that
\* holds another row.
C17_Witness ==
    /\ JustDid("SetStatus")
    /\ table # before
    /\ Cardinality(table) >= 2
    /\ \E r \in before : r.number # call.number /\ r \in table

=============================================================================
